---- MODULE Spec2Model ----
(***************************************************************************)
(* The decoding path of the U-Net: Decoder and DecodingBlock of            *)
(* unet/decoding.py.                                                       *)
(*                                                                         *)
(* A tensor is its shape <<batch, channels, spatial extents...>> and a     *)
(* symbolic value: the term that says which operations, applied to which   *)
(* inputs, produced it.  An operation that raises yields a tensor with     *)
(* ok = FALSE and the site of the failure; every later operation of the    *)
(* same call passes the failure on, as an uncaught exception does.         *)
(*                                                                         *)
(* The arguments normalization, preactivation, padding, padding_mode and   *)
(* activation are handed unchanged to ConvolutionalBlock (unet/conv.py,    *)
(* not part of this file) and read nowhere in decoding.py; they are left   *)
(* out of the state.                                                       *)
(***************************************************************************)
EXTENDS Integers, Sequences, FiniteSets, TLC

VARIABLES
    init_args,                    \* the arguments Decoder.__init__ was called with
    forward_args,                 \* the arguments Decoder.forward is called with
    pc,                           \* "init", "ready", "forward", "returned", "raised"
    in_channels_skip_connection,  \* the running local of Decoder.__init__
    dilation,                     \* self.dilation
    decoding_blocks,              \* self.decoding_blocks
    x,                            \* the local x of Decoder.forward
    zipped,                       \* positions of the two iterators inside zip
    calls,                        \* history: one record per decoding_block(...) call
    error,                        \* the exception that left the running method, "" if none
    pad_accepts_empty             \* whether F.pad accepts a resulting extent of 0

vars ==
    <<init_args, forward_args, pc, in_channels_skip_connection, dilation,
      decoding_blocks, x, zipped, calls, error, pad_accepts_empty>>

\* ------------------------------------------------------------------ bounds

MaxBlocks == 3
MaxSkips == 3
MaxDilation == 5
MaxExtent == 5
MaxXExtent == 2

\* ------------------------------------------------------------ Python values

\* Optional[int]: None is the empty sequence, an int v is <<v>>.
None == <<>>

Some(v) == <<v>>

Min(a, b) == IF a < b THEN a ELSE b

\* ----------------------------------------------------------------- tensors

CHANNELS_DIMENSION == 2

Tensor(shape, val) == [ok |-> TRUE, shape |-> shape, val |-> val, error |-> ""]

Raise(site) == [ok |-> FALSE, shape |-> <<>>, val |-> <<>>, error |-> site]

NoTensor == Raise("unbound")

Channels(t) == t.shape[CHANNELS_DIMENSION]

\* shape[2:]
Spatial(shape) == SubSeq(shape, 3, Len(shape))

\* An input feature map: batch 1, the given channels and spatial extents.
FeatureMap(channels, spatial, id) ==
    Tensor(<<1, channels>> \o spatial, <<"input", id, <<>>>>)

\* ------------------------------------------------- the numeric primitives

\* F.pad(t, pad) in constant mode: the pad list holds (leading, trailing)
\* pairs, the first pair for the LAST axis of t, the second for the axis
\* before it, and so on.  A negative amount crops.  A resulting extent
\* below 0 raises; whether 0 raises depends on the torch build.
PadAxisAmount(shape, pad, a) ==
    LET i == Len(shape) - a + 1
    IN  IF 2 * i <= Len(pad) THEN pad[2 * i - 1] + pad[2 * i] ELSE 0

F_pad(t, pad) ==
    LET new_shape == [a \in 1..Len(t.shape) |->
                         t.shape[a] + PadAxisAmount(t.shape, pad, a)]
        bad(a) == \/ new_shape[a] < 0
                  \/ new_shape[a] = 0 /\ ~pad_accepts_empty
    IN  IF ~t.ok THEN t
        ELSE IF \E a \in 1..Len(t.shape) : bad(a) THEN Raise("F.pad")
        ELSE Tensor(new_shape, <<"pad", 0, <<t.val, <<"amounts", 0, pad>>>>>>)

\* torch.cat((a, b), dim=CHANNELS_DIMENSION): the same rank and the same
\* extent on every other axis, or it raises.
torch_cat(a, b) ==
    IF ~a.ok THEN a
    ELSE IF ~b.ok THEN b
    ELSE IF \/ Len(a.shape) # Len(b.shape)
            \/ \E i \in 1..Len(a.shape) :
                   i # CHANNELS_DIMENSION /\ a.shape[i] # b.shape[i]
         THEN Raise("torch.cat")
    ELSE Tensor([i \in 1..Len(a.shape) |->
                    IF i = CHANNELS_DIMENSION THEN a.shape[i] + b.shape[i]
                    ELSE a.shape[i]],
                <<"cat", 0, <<a.val, b.val>>>>)

\* a += b: b must broadcast to the shape of a.
iadd(a, b) ==
    IF ~a.ok THEN a
    ELSE IF ~b.ok THEN b
    ELSE IF \/ Len(b.shape) > Len(a.shape)
            \/ \E i \in 1..Len(b.shape) :
                   LET j == Len(a.shape) - Len(b.shape) + i
                   IN  b.shape[i] # 1 /\ b.shape[i] # a.shape[j]
         THEN Raise("iadd")
    ELSE Tensor(a.shape, <<"add", 0, <<a.val, b.val>>>>)

\* ------------------------------------------------------ upsampling layers

Layer(kind, in_channels, out_channels, kernel_size, stride, scale_factor, mode, err) ==
    [error |-> err, kind |-> kind, in_channels |-> in_channels,
     out_channels |-> out_channels, kernel_size |-> kernel_size,
     stride |-> stride, scale_factor |-> scale_factor, mode |-> mode]

\* get_conv_transpose_layer: getattr(nn, f'ConvTranspose{dimensions}d')
\* exists for 1, 2 and 3 dimensions only.
get_conv_transpose_layer(dimensions, in_channels, out_channels) ==
    IF dimensions \notin 1..3
    THEN Layer("", 0, 0, 0, 0, 0, "", "AttributeError")
    ELSE Layer("ConvTranspose", in_channels, out_channels, 2, 2, 0, "", "")

\* get_upsampling_layer is declared with the one parameter upsampling_type;
\* `positional` is the tuple of positional arguments of the call.  A call
\* with any other number of arguments raises TypeError.
get_upsampling_layer(positional) ==
    IF Len(positional) # 1
    THEN Layer("", 0, 0, 0, 0, 0, "", "TypeError")
    ELSE Layer("interpolate", 0, 0, 0, 0, 2, positional[1], "")

\* The interpolation modes and the number of spatial axes each accepts.
InterpolateAccepts(mode, rank) ==
    \/ mode = "nearest" /\ rank \in 1..3
    \/ mode = "linear" /\ rank = 1
    \/ mode = "bilinear" /\ rank = 2
    \/ mode = "trilinear" /\ rank = 3

\* self.upsample(x) of the block with identity id.  The transposed
\* convolution (kernel 2, stride 2, no padding) wants its in_channels and
\* maps an extent e to (e - 1) * stride + kernel_size; the interpolation
\* keeps the channels and maps e to e * scale_factor.
upsample(layer, id, t) ==
    IF ~t.ok THEN t
    ELSE IF layer.kind = "ConvTranspose"
    THEN IF Channels(t) # layer.in_channels THEN Raise("upsample")
         ELSE Tensor(<<t.shape[1], layer.out_channels>> \o
                         [i \in 1..Len(t.shape) - 2 |->
                             (t.shape[i + 2] - 1) * layer.stride + layer.kernel_size],
                     <<"upsample", id, <<t.val>>>>)
    ELSE IF ~InterpolateAccepts(layer.mode, Len(t.shape) - 2) THEN Raise("upsample")
         ELSE Tensor(<<t.shape[1], t.shape[2]>> \o
                         [i \in 1..Len(t.shape) - 2 |->
                             t.shape[i + 2] * layer.scale_factor],
                     <<"upsample", id, <<t.val>>>>)

\* ------------------------------------------------- ConvolutionalBlock

\* ConvolutionalBlock(dimensions, in_channels, out_channels, kernel_size=...,
\* dilation=...): the block of unet/conv.py, by its contract: it maps
\* in_channels to out_channels and here keeps the spatial extents.
\* kernel_size and dilation are Optional: None when the call leaves them out.
ConvolutionalBlock(dimensions, in_channels, out_channels, kernel_size, dil) ==
    [dimensions |-> dimensions, in_channels |-> in_channels,
     out_channels |-> out_channels, kernel_size |-> kernel_size, dilation |-> dil]

\* block(t), for the sub-block called `name` of the decoding block id.
conv(block, name, id, t) ==
    IF ~t.ok THEN t
    ELSE IF Channels(t) # block.in_channels THEN Raise(name)
    ELSE Tensor(<<t.shape[1], block.out_channels>> \o Spatial(t.shape),
                <<name, id, <<t.val>>>>)

\* ----------------------------------------------------------- DecodingBlock

\* Mutant: the transposed convolution is built for the skip channels.
UpsampleChannelsNotDoubled(in_channels_skip) == in_channels_skip

\* The channels of the transposed convolution: in_channels = out_channels =
\* 2 * in_channels_skip_connection.
UpsampleChannels(in_channels_skip) == 2 * in_channels_skip

\* in_channels_first = in_channels_skip_connection * (1 + 2)
InChannelsFirst(in_channels_skip) == in_channels_skip * (1 + 2)

\* The upsampling layer DecodingBlock.__init__ installs.
MakeUpsample(in_channels_skip, dimensions, upsampling_type) ==
    IF upsampling_type = "conv"
    THEN get_conv_transpose_layer(dimensions, UpsampleChannels(in_channels_skip),
                                  UpsampleChannels(in_channels_skip))
    ELSE get_upsampling_layer(<<dimensions, upsampling_type>>)

\* self.conv_residual: present only when residual.
MakeConvResidual(in_channels_skip, dimensions, residual) ==
    IF residual
    THEN Some(ConvolutionalBlock(dimensions, InChannelsFirst(in_channels_skip),
                                 in_channels_skip, Some(1), None))
    ELSE None

\* DecodingBlock.__init__; id is the identity of the new object.  error is
\* the exception the constructor raises, "" when it returns.
DecodingBlock_init(id, in_channels_skip, dimensions, upsampling_type, residual, dil) ==
    LET up == MakeUpsample(in_channels_skip, dimensions, upsampling_type)
        out_channels == in_channels_skip
    IN  [error |-> up.error,
         id |-> id,
         in_channels_skip_connection |-> in_channels_skip,
         residual |-> residual,
         upsample |-> up,
         conv1 |-> ConvolutionalBlock(dimensions, InChannelsFirst(in_channels_skip),
                                      out_channels, None, dil),
         conv2 |-> ConvolutionalBlock(dimensions, out_channels, out_channels,
                                      None, dil),
         conv_residual |-> MakeConvResidual(in_channels_skip, dimensions, residual)]

\* half_crop = crop // 2, floor division: a negative crop gives a negative
\* half crop (-2 // 2 = -1, -1 // 2 = -1), which the negation turns into
\* positive padding.
HalfCrop(crop) == crop \div 2

\* Mutant: the remainder of an odd crop goes to the trailing side,
\* (-h1, -(c1 - h1), -h2, -(c2 - h2), ...).
center_crop_pad_remainder(skip_shape, x_shape) ==
    LET s == Spatial(skip_shape)
        u == Spatial(x_shape)
        c(j) == s[(j + 1) \div 2] - u[(j + 1) \div 2]
    IN  [j \in 1..2 * Len(s) |->
            IF j % 2 = 1 THEN -HalfCrop(c(j)) ELSE -(c(j) - HalfCrop(c(j)))]

\* The pad list of center_crop: crop = skip_shape[2:] - x_shape[2:],
\* -torch.stack((half_crop, half_crop)).t().flatten(), that is
\* (-h1, -h1, -h2, -h2, ...) with hi the half crop of spatial axis i.
center_crop_pad(skip_shape, x_shape) ==
    LET s == Spatial(skip_shape)
        u == Spatial(x_shape)
    IN  [j \in 1..2 * Len(s) |-> -HalfCrop(s[(j + 1) \div 2] - u[(j + 1) \div 2])]

\* DecodingBlock.center_crop.  The subtraction of the two shape tensors
\* raises when they differ in length.
center_crop(skip_connection, t) ==
    IF ~skip_connection.ok THEN skip_connection
    ELSE IF ~t.ok THEN t
    ELSE IF Len(skip_connection.shape) # Len(t.shape) THEN Raise("center_crop")
    ELSE F_pad(skip_connection, center_crop_pad(skip_connection.shape, t.shape))

\* The two operands of torch.cat, in order.
CatOperands(skip_connection, t) == <<skip_connection, t>>

\* Mutant: the shortcut is computed and never added.
ResidualOutputNotAdded(self, concat) ==
    LET connection == conv(self.conv_residual[1], "conv_residual", self.id, concat)
        y == conv(self.conv2, "conv2", self.id,
                  conv(self.conv1, "conv1", self.id, concat))
    IN  IF ~connection.ok THEN connection ELSE y

\* The residual branch: connection = conv_residual(x); x = conv2(conv1(x));
\* x += connection.
ResidualOutput(self, concat) ==
    LET connection == conv(self.conv_residual[1], "conv_residual", self.id, concat)
        y == conv(self.conv2, "conv2", self.id,
                  conv(self.conv1, "conv1", self.id, concat))
    IN  IF ~connection.ok THEN connection ELSE iadd(y, connection)

\* The plain branch: x = conv2(conv1(x)).
PlainOutput(self, concat) ==
    conv(self.conv2, "conv2", self.id, conv(self.conv1, "conv1", self.id, concat))

\* DecodingBlock.forward, with every intermediate value kept: the record is
\* what one call computes, out being the value returned (or the failure).
DecodingBlock_forward(self, skip_connection, t) ==
    LET up == upsample(self.upsample, self.id, t)
        cropped == center_crop(skip_connection, up)
        ops == CatOperands(cropped, up)
        concat == torch_cat(ops[1], ops[2])
        out == IF self.residual THEN ResidualOutput(self, concat)
               ELSE PlainOutput(self, concat)
    IN  [block |-> self.id, skip_connection |-> skip_connection, x |-> t,
         upsampled |-> up,
         pad |-> IF up.ok /\ Len(up.shape) = Len(skip_connection.shape)
                 THEN center_crop_pad(skip_connection.shape, up.shape) ELSE <<>>,
         cropped |-> cropped, concat |-> concat, out |-> out]

\* ----------------------------------------------------------------- Decoder

\* Mutant: the channels are not halved from one stage to the next.
NextChannelsKept(c) == c

\* in_channels_skip_connection //= 2
NextChannels(c) == c \div 2

\* Mutant: a dilation that reaches 0 is treated as absent.
NextDilationFalsyToNone(d) ==
    IF d = None \/ d[1] \div 2 = 0 THEN None ELSE Some(d[1] \div 2)

\* self.dilation = None if self.dilation is None else self.dilation // 2
NextDilation(d) == IF d = None THEN None ELSE Some(d[1] \div 2)

\* Mutant: the list is walked front to back.
ForwardIndex(m, k) == k

\* reversed(skip_connections): the item at position k (from 0) of the
\* reversed list of length m is skip_connections[m - 1 - k] (from 0).
ReversedIndex(m, k) == m - 1 - k

\* Mutant: the pairing stops one skip connection early.
ZipStopsEarly(skip_pos, m, block_pos, n) == skip_pos + 1 < m /\ block_pos < n

\* Whether zip yields another pair: it asks reversed(skip_connections)
\* first and self.decoding_blocks second, and stops when either is spent.
ZipHasNext(skip_pos, m, block_pos, n) == skip_pos < m /\ block_pos < n

NumSkips == Len(forward_args.skip_connections)

\* One iteration of the loop of Decoder.__init__: build a DecodingBlock from
\* the running values, append it, halve the channels and the dilation.  An
\* exception of the DecodingBlock constructor leaves __init__.
NewDecodingBlock ==
    /\ pc = "init"
    /\ Len(decoding_blocks) < init_args.num_decoding_blocks
    /\ LET decoding_block ==
               DecodingBlock_init(Len(decoding_blocks), in_channels_skip_connection,
                                  init_args.dimensions, init_args.upsampling_type,
                                  init_args.residual, dilation)
       IN  IF decoding_block.error # ""
           THEN /\ pc' = "raised"
                /\ error' = decoding_block.error
                /\ UNCHANGED <<decoding_blocks, in_channels_skip_connection, dilation>>
           ELSE /\ decoding_blocks' = Append(decoding_blocks, decoding_block)
                /\ in_channels_skip_connection' = NextChannels(in_channels_skip_connection)
                /\ dilation' = NextDilation(dilation)
                /\ UNCHANGED <<pc, error>>
    /\ UNCHANGED <<init_args, forward_args, x, zipped, calls, pad_accepts_empty>>

\* The loop of Decoder.__init__ is over: the constructor returns.
DecoderInitReturn ==
    /\ pc = "init"
    /\ Len(decoding_blocks) >= init_args.num_decoding_blocks
    /\ pc' = "ready"
    /\ UNCHANGED <<init_args, forward_args, in_channels_skip_connection, dilation,
                   decoding_blocks, x, zipped, calls, error, pad_accepts_empty>>

\* Decoder.forward(skip_connections, x) is called: zip is set up over
\* reversed(skip_connections) and self.decoding_blocks.
ForwardCall ==
    /\ pc = "ready"
    /\ pc' = "forward"
    /\ x' = forward_args.x
    /\ zipped' = [skip |-> 0, block |-> 0]
    /\ UNCHANGED <<init_args, forward_args, in_channels_skip_connection, dilation,
                   decoding_blocks, calls, error, pad_accepts_empty>>

\* One iteration of the loop of Decoder.forward: zip yields the next pair
\* and x = decoding_block(skip_connection, x); an exception of the block
\* leaves forward.
ForwardIterate ==
    /\ pc = "forward"
    /\ ZipHasNext(zipped.skip, NumSkips, zipped.block, Len(decoding_blocks))
    /\ LET skip_index == ReversedIndex(NumSkips, zipped.skip)
           skip_connection == forward_args.skip_connections[skip_index + 1]
           decoding_block == decoding_blocks[zipped.block + 1]
           run == DecodingBlock_forward(decoding_block, skip_connection, x)
       IN  /\ calls' = Append(calls, [block_index |-> zipped.block,
                                      skip_index |-> skip_index, run |-> run])
           /\ IF run.out.ok
              THEN x' = run.out /\ UNCHANGED <<pc, error>>
              ELSE pc' = "raised" /\ error' = run.out.error /\ UNCHANGED x
    /\ zipped' = [skip |-> zipped.skip + 1, block |-> zipped.block + 1]
    /\ UNCHANGED <<init_args, forward_args, in_channels_skip_connection, dilation,
                   decoding_blocks, pad_accepts_empty>>

\* zip is spent: the loop ends and forward returns x.  When the blocks run
\* out first, zip has already taken one more item from the reversed list.
ForwardReturn ==
    /\ pc = "forward"
    /\ ~ZipHasNext(zipped.skip, NumSkips, zipped.block, Len(decoding_blocks))
    /\ zipped' = [zipped EXCEPT !.skip = IF @ < NumSkips THEN @ + 1 ELSE @]
    /\ pc' = "returned"
    /\ UNCHANGED <<init_args, forward_args, in_channels_skip_connection, dilation,
                   decoding_blocks, x, calls, error, pad_accepts_empty>>

Next ==
    \/ NewDecodingBlock
    \/ DecoderInitReturn
    \/ ForwardCall
    \/ ForwardIterate
    \/ ForwardReturn

\* ------------------------------------------------------------------ inputs

InitArgs(c, dimensions, upsampling_type, n, residual, dil) ==
    [in_channels_skip_connection |-> c, dimensions |-> dimensions,
     upsampling_type |-> upsampling_type, num_decoding_blocks |-> n,
     residual |-> residual, initial_dilation |-> dil]

\* The state when Decoder.__init__ has run up to its loop, for the given
\* constructor arguments and the arguments forward will later be called with.
Start(a, skips, bottleneck) ==
    /\ init_args = a
    /\ forward_args = [skip_connections |-> skips, x |-> bottleneck]
    /\ pc = "init"
    /\ in_channels_skip_connection = a.in_channels_skip_connection
    /\ dilation = a.initial_dilation
    /\ decoding_blocks = <<>>
    /\ x = NoTensor
    /\ zipped = [skip |-> 0, block |-> 0]
    /\ calls = <<>>
    /\ error = ""
    /\ pad_accepts_empty \in BOOLEAN

Cube(dimensions, e) == [i \in 1..dimensions |-> e]

Dilations == {None} \cup {Some(d) : d \in 0..MaxDilation}

\* The skip connections an encoder of n stages hands over, shallowest first:
\* the one paired with stage i has c // 2^i channels and the extents of the
\* upsampled x of that stage.
Pyramid(c, dimensions, n, e) ==
    [j \in 1..n |-> FeatureMap(c \div 2^(n - j), Cube(dimensions, e * 2^(n - j + 1)), j)]

\* Construction in all its variety, forward on the matching pyramid.
InitConstruct ==
    \E c \in {1, 2, 3, 4, 8, 16}, dimensions \in 1..3,
       upsampling_type \in {"conv", "nearest", "trilinear"},
       n \in 0..MaxBlocks, residual \in BOOLEAN, dil \in Dilations :
        Start(InitArgs(c, dimensions, upsampling_type, n, residual, dil),
              Pyramid(c, dimensions, n, 1),
              FeatureMap(2 * c, Cube(dimensions, 1), 0))

\* (channels, extent) of the skip connections forward is tried on.
SkipPool == {<<4, 2>>, <<2, 4>>, <<1, 8>>, <<2, 6>>}

SkipLists ==
    UNION {[1..m -> SkipPool] : m \in 0..MaxSkips}

\* Forward on lists of any length up to MaxSkips, against decoders of any
\* number of blocks up to MaxBlocks.
InitForward ==
    \E c \in {2, 4}, n \in 0..MaxBlocks, residual \in BOOLEAN,
       l \in SkipLists, xc \in {1, 2}, xe \in {1, 2} :
        Start(InitArgs(c, 1, "conv", n, residual, None),
              [j \in 1..Len(l) |-> FeatureMap(l[j][1], Cube(1, l[j][2]), j)],
              FeatureMap(xc * c, Cube(1, xe), 0))

\* One block on one skip connection: every spatial shape within the bounds,
\* and the two shapes the documentation names.
BlockShapes ==
    UNION {[skip : [1..d -> 1..MaxExtent], x : [1..d -> 1..MaxXExtent]] : d \in 1..3}
    \cup {[skip |-> <<10, 20, 30>>, x |-> <<3, 7, 6>>],
          [skip |-> <<11>>, x |-> <<3>>]}

InitBlock ==
    \E residual \in BOOLEAN, s \in BlockShapes :
        Start(InitArgs(2, Len(s.x), "conv", 1, residual, None),
              <<FeatureMap(2, s.skip, 1)>>,
              FeatureMap(4, s.x, 0))

\* Spec: Decoder.forward on skip lists of every length against decoders of
\* every size.  SpecConstruct: Decoder.__init__ over all its arguments.
\* SpecBlock: one DecodingBlock on every pair of spatial shapes.
Spec == InitForward /\ [][Next]_vars

SpecConstruct == InitConstruct /\ [][Next]_vars

SpecBlock == InitBlock /\ [][Next]_vars

\* ------------------------------------------------------------- properties

\* The calls of DecodingBlock.forward made so far, and what each computed.
Runs == {calls[i].run : i \in 1..Len(calls)}

\* The calls whose upsampling succeeded on an x with as many spatial axes as
\* the skip connection: those that reach the arithmetic of center_crop.
CropRuns == {r \in Runs : r.upsampled.ok /\ Len(r.upsampled.shape) = Len(r.skip_connection.shape)}

Axes(r) == 1..Len(Spatial(r.skip_connection.shape))

\* crop on spatial axis a: skip extent minus upsampled-x extent.
Crop(r, a) == Spatial(r.skip_connection.shape)[a] - Spatial(r.upsampled.shape)[a]

Returned == pc = "returned"

\* C1: whenever, on every spatial axis, skip extent minus x extent is
\* non-negative and even, center_crop returns a skip connection whose spatial
\* shape is that of x, axis by axis; and for skip (10,20,30), x (6,14,12) the
\* pad list is (-2,-2,-3,-3,-9,-9) and the cropped shape (6,14,12).
C1_CenterCropExact ==
    \A r \in CropRuns :
        /\ (\A a \in Axes(r) : Crop(r, a) >= 0 /\ Crop(r, a) % 2 = 0)
               => /\ r.cropped.ok
                  /\ Spatial(r.cropped.shape) = Spatial(r.upsampled.shape)
        /\ (/\ Spatial(r.skip_connection.shape) = <<10, 20, 30>>
            /\ Spatial(r.upsampled.shape) = <<6, 14, 12>>)
               => /\ r.pad = <<-2, -2, -3, -3, -9, -9>>
                  /\ r.cropped.ok
                  /\ Spatial(r.cropped.shape) = <<6, 14, 12>>

\* C5: whenever skip extent minus x extent is positive and odd on an axis,
\* center_crop leaves the skip connection one longer than x on that axis,
\* and forward fails at the concatenation.
C5_OddCropOffByOne ==
    \A r \in CropRuns :
        \A a \in Axes(r) :
            (Crop(r, a) > 0 /\ Crop(r, a) % 2 = 1)
                => /\ r.cropped.ok
                   /\ Spatial(r.cropped.shape)[a] = Spatial(r.upsampled.shape)[a] + 1
                   /\ ~r.out.ok
                   /\ r.out.error = "torch.cat"

\* C9 as stated: whenever the skip connection is shorter than the upsampled
\* x on some axis, center_crop leaves unequal extents, the concatenation
\* fails and forward has no output.
C9_SmallerSkipAlwaysFails ==
    \A r \in CropRuns :
        (\E a \in Axes(r) : Crop(r, a) < 0)
            => ~r.out.ok /\ r.out.error = "torch.cat"

\* C9, amended: whenever the skip connection is shorter than the upsampled x
\* by an odd amount on some axis, forward has no output: the padding of
\* center_crop raises, or the extents still differ on that axis and the
\* concatenation raises; Decoder.forward is left by that exception.
C9_OddDeficitFails ==
    \A r \in CropRuns :
        \A a \in Axes(r) :
            (Crop(r, a) < 0 /\ Crop(r, a) % 2 = 1)
                => /\ ~r.out.ok
                   /\ r.out.error \in {"F.pad", "torch.cat"}
                   /\ r.cropped.ok =>
                          /\ Spatial(r.cropped.shape)[a] # Spatial(r.upsampled.shape)[a]
                          /\ r.out.error = "torch.cat"
                   /\ pc = "raised"
                   /\ error = r.out.error

\* An odd deficit met the concatenation: skip 3 against an upsampled x of 4.
C9_Witness ==
    \E r \in CropRuns :
        /\ \E a \in Axes(r) : Crop(r, a) = -1
        /\ r.cropped.ok
        /\ r.out.error = "torch.cat"
        /\ pc = "raised"

\* C10: the output of DecodingBlock.forward is, as a value,
\* conv2(conv1(concat)) + conv_residual(concat) when residual and
\* conv2(conv1(concat)) when not, concat being the concatenation of the
\* cropped skip connection and the upsampled x in that order; without
\* residual the block owns no conv_residual.
C10_ResidualPath ==
    \A i \in 1..Len(calls) :
        LET r == calls[i].run
            self == decoding_blocks[calls[i].block_index + 1]
            main == <<"conv2", self.id, << <<"conv1", self.id, <<r.concat.val>> >> >> >>
            shortcut == <<"conv_residual", self.id, <<r.concat.val>> >>
        IN  /\ r.concat.ok =>
                   r.concat.val = <<"cat", 0, <<r.cropped.val, r.upsampled.val>> >>
            /\ r.out.ok =>
                   /\ r.concat.ok
                   /\ self.residual => r.out.val = <<"add", 0, <<main, shortcut>> >>
                   /\ ~self.residual => r.out.val = main /\ self.conv_residual = None
            /\ self.residual => self.conv_residual # None

\* A residual block returned an output.
C10_Witness ==
    /\ Returned
    /\ \E i \in 1..Len(calls) :
           /\ decoding_blocks[calls[i].block_index + 1].residual
           /\ calls[i].run.out.ok

\* The arguments of Decoder.__init__, as the claims name them.
ArgC == init_args.in_channels_skip_connection

ArgN == init_args.num_decoding_blocks

\* What the pairing of Decoder.forward must look like after any number of
\* iterations: call number i (from 0) is block i on
\* skip_connections[m - 1 - i], with the x the call before it returned
\* (the bottleneck for call 0).
PairedInReverse ==
    \A i \in 1..Len(calls) :
        /\ calls[i].block_index = i - 1
        /\ calls[i].run.block = decoding_blocks[i].id
        /\ calls[i].skip_index = NumSkips - i
        /\ calls[i].run.skip_connection = forward_args.skip_connections[NumSkips - i + 1]
        /\ calls[i].run.x = IF i = 1 THEN forward_args.x ELSE calls[i - 1].run.out

\* The value forward returns: the output of the last call, the bottleneck
\* when there was none.
ReturnsLastOutput ==
    x = IF calls = <<>> THEN forward_args.x ELSE calls[Len(calls)].run.out

\* C2: with as many skip connections as blocks, block i receives
\* skip_connections[n - 1 - i], the blocks run in order, each on the output
\* of the one before (block 0 on the bottleneck), and when forward returns
\* every skip connection has been handed to a block exactly once.
C2_ReverseOrderExactlyOnce ==
    (NumSkips = ArgN /\ pc \in {"forward", "returned", "raised"}) =>
        /\ PairedInReverse
        /\ Returned =>
               /\ Len(calls) = ArgN
               /\ \A j \in 0..ArgN - 1 :
                      Cardinality({i \in 1..Len(calls) : calls[i].skip_index = j}) = 1
               /\ ReturnsLastOutput

\* Three skip connections went through three blocks and forward returned.
C2_Witness ==
    /\ Returned
    /\ NumSkips = ArgN
    /\ ArgN >= 3
    /\ Len(calls) = ArgN

\* C6: with m skip connections and n blocks, m # n, forward raises nothing
\* of its own (an exception comes from the block just called), never calls
\* more than min(m, n) blocks, and when it returns it has called exactly
\* blocks 0 .. min(m, n) - 1, block i on skip_connections[m - 1 - i]; no
\* other block was called and no shallower skip connection was handed to a
\* block; with m = 0 it returns the bottleneck unchanged.
C6_SilentTruncation ==
    (NumSkips # ArgN /\ pc \in {"forward", "returned", "raised"}) =>
        /\ PairedInReverse
        /\ Len(calls) <= Min(NumSkips, ArgN)
        /\ pc = "raised" =>
               /\ calls # <<>>
               /\ ~calls[Len(calls)].run.out.ok
               /\ error = calls[Len(calls)].run.out.error
        /\ Returned =>
               /\ Len(calls) = Min(NumSkips, ArgN)
               /\ \A i \in 1..Len(calls) :
                      /\ calls[i].block_index < Min(NumSkips, ArgN)
                      /\ calls[i].skip_index >= NumSkips - Min(NumSkips, ArgN)
               /\ ReturnsLastOutput
               /\ NumSkips = 0 => x = forward_args.x

\* Forward returned after two blocks with three skip connections at hand.
C6_Witness ==
    /\ Returned
    /\ NumSkips > ArgN
    /\ ArgN >= 2
    /\ Len(calls) = ArgN
    /\ zipped.skip = ArgN + 1

\* C3: with 'conv' upsampling, n >= 1 and c divisible by 2^(n-1), the
\* constructor returns a Decoder of exactly n blocks, block k built with
\* in_channels_skip_connection = c // 2^k.
C3_BlockChannels ==
    (/\ init_args.upsampling_type = "conv"
     /\ ArgN >= 1
     /\ ArgC % 2^(ArgN - 1) = 0) =>
        /\ pc # "raised" \/ calls # <<>>
        /\ \A k \in 0..Len(decoding_blocks) - 1 :
               decoding_blocks[k + 1].in_channels_skip_connection = ArgC \div 2^k
        /\ pc # "init" => Len(decoding_blocks) = ArgN

\* A Decoder of three blocks was constructed from c = 4.
C3_Witness ==
    /\ pc = "ready"
    /\ init_args.upsampling_type = "conv"
    /\ ArgN >= 3
    /\ ArgC % 2^(ArgN - 1) = 0
    /\ Len(decoding_blocks) = ArgN
    /\ decoding_blocks[3].in_channels_skip_connection = ArgC \div 4

\* The channel premises of C4: c divisible by 2^(n-1), a bottleneck of 2c
\* channels, and c // 2^k channels on the skip connection paired with stage k.
C4_Premises ==
    /\ init_args.upsampling_type = "conv"
    /\ ArgN >= 1
    /\ ArgC % 2^(ArgN - 1) = 0
    /\ Channels(forward_args.x) = 2 * ArgC
    /\ \A k \in 0..Min(NumSkips, ArgN) - 1 :
           Channels(forward_args.skip_connections[NumSkips - k]) = ArgC \div 2^k

\* C4: under those premises, at every stage k the upsampler receives the
\* 2 * (c // 2^k) channels it was built for and accepts them, the
\* concatenation has skip + x = 3 * (c // 2^k) channels, which is what conv1
\* was built for, and the output has c // 2^k channels, which is what the
\* upsampler of stage k + 1 was built for.
C4_ChannelInvariant ==
    C4_Premises =>
        \A i \in 1..Len(calls) :
            LET r == calls[i].run
                self == decoding_blocks[i]
                ck == ArgC \div 2^(i - 1)
            IN  /\ Channels(r.x) = 2 * ck
                /\ Channels(r.x) = self.upsample.in_channels
                /\ r.upsampled.ok
                /\ Channels(r.upsampled) = 2 * ck
                /\ r.concat.ok =>
                       /\ Channels(r.concat) = Channels(r.cropped) + Channels(r.upsampled)
                       /\ Channels(r.concat) = 3 * ck
                       /\ Channels(r.concat) = self.conv1.in_channels
                       /\ r.out.ok
                       /\ Channels(r.out) = ck
                       /\ i < Len(decoding_blocks) =>
                              Channels(r.out) = decoding_blocks[i + 1].upsample.in_channels

\* Three stages ran to the end under the premises.
C4_Witness ==
    /\ C4_Premises
    /\ Returned
    /\ ArgN >= 3
    /\ Len(calls) = ArgN

\* C7: with an upsampling mode other than 'conv' and at least one stage,
\* construction succeeds and every block owns an interpolation of that mode
\* with scale factor 2.
C7_InterpolationInstalled ==
    (init_args.upsampling_type # "conv" /\ ArgN >= 1) =>
        /\ pc # "raised"
        /\ pc # "init" =>
               /\ Len(decoding_blocks) = ArgN
               /\ \A k \in 1..Len(decoding_blocks) :
                      /\ decoding_blocks[k].upsample.kind = "interpolate"
                      /\ decoding_blocks[k].upsample.scale_factor = 2
                      /\ decoding_blocks[k].upsample.mode = init_args.upsampling_type

\* The dilation stage k is due: d // 2^k, None for None.
DueDilation(k) ==
    IF init_args.initial_dilation = None THEN None
    ELSE Some(init_args.initial_dilation[1] \div 2^k)

\* C8: block k is built with dilation d // 2^k on both of its convolutional
\* blocks, a value of 0 included (never None, never 1 in its place), and with
\* None throughout when initial_dilation is None.
C8_DilationPropagation ==
    \A k \in 0..Len(decoding_blocks) - 1 :
        /\ decoding_blocks[k + 1].conv1.dilation = DueDilation(k)
        /\ decoding_blocks[k + 1].conv2.dilation = DueDilation(k)
        /\ (init_args.initial_dilation # None /\ init_args.initial_dilation[1] < 2^k)
               => decoding_blocks[k + 1].conv1.dilation = Some(0)

\* From an initial dilation of 1 the second and third blocks were built
\* with dilation 0.
C8_Witness ==
    /\ pc = "ready"
    /\ init_args.initial_dilation = Some(1)
    /\ Len(decoding_blocks) >= 3
    /\ decoding_blocks[2].conv1.dilation = Some(0)
    /\ decoding_blocks[3].conv2.dilation = Some(0)

====
